---- MODULE Spec2Model ----
(***************************************************************************)
(* The client outgoing gate of breakwater-grpc                             *)
(* (breakwater/client_interceptor.go, UnaryInterceptorClient).             *)
(*                                                                         *)
(* Every goroutine of Procs performs one call of UnaryInterceptorClient.   *)
(* One action is one operation on shared state (a channel send or receive, *)
(* a clock read, the transport invocation); pc[p] is the position of       *)
(* goroutine p between two such operations.  A local variable returns to   *)
(* its zero value after its last read.                                     *)
(***************************************************************************)
EXTENDS Integers, Sequences, FiniteSets, TLC

\* ------------------------------------------------------------------ bounds
NumProcs == 2          \* concurrent calls of UnaryInterceptorClient
PendingCap == 1        \* capacity of the pendingOutgoing channel
MaxGrant == 2          \* largest credits value a reply header carries
MaxInitCredits == 2    \* largest credit balance after construction
ClientExpiration == 0  \* b.clientExpiration, in clock ticks

Procs == 1..NumProcs

NoHeader == <<>>       \* len(header["credits"]) = 0

VARIABLES
  outgoingCredits,          \* chan int64, capacity 1: the credit balance
  noCreditBlocker,          \* chan int64, capacity 1: the wake signal
  pendingOutgoing,          \* chan int64, capacity PendingCap: queued tokens
  useClientQueueLength,     \* package flag read at line 67
  useClientTimeExpiration,  \* package flag read at line 85
  creditsOnFail,            \* package flag read at line 137
  pc,                       \* position of each goroutine
  sinceStart,               \* time.Since(sinceStart), capped past clientExpiration
  local,                    \* local creditBalance / credit / outgoingCredits
  demand,                   \* local demand
  ctxDone,                  \* ctx is cancelled or past its deadline, while at line 80
  outcome,                  \* what the invoker returned: "none","err","hdr","nohdr"
  header,                   \* header["credits"][0] of the reply, or NoHeader
  result,                   \* what the call returned
  decs,                     \* history: decrements of the call at lines 100-104
  admissions,               \* history: times the call left the loop at line 111
  restored,                 \* history: credit+1 written by the call
  floored,                  \* history: max(.,1) written by the call
  signalled,                \* history: unblockNoCreditBlock calls after the invoker
  grantFresh,               \* history: a reply wrote credits > 0 that no gate has read yet
  supplied,                 \* history: the initial balance plus every value a reply granted
  ledger,                   \* history: the balance as the sequence of its writes leaves it
  enqueued,                 \* history: tokens the call sent, until its dequeueRequest
  invocations,              \* history: calls of invoker made by the call
  transportErr,             \* err of line 134: "none" before it returns, "nil", or an error
  returned                  \* the error value the call returned, "none" before it returns

vars == <<outgoingCredits, noCreditBlocker, pendingOutgoing,
          useClientQueueLength, useClientTimeExpiration, creditsOnFail,
          pc, sinceStart, local, demand, ctxDone, outcome, header, result,
          decs, admissions, restored, floored, signalled, grantFresh,
          supplied, ledger, enqueued, invocations, transportErr, returned>>

\* ---------------------------------------------------------------- helpers
Max(a, b) == IF a > b THEN a ELSE b

\* strconv.Itoa, as the server formats the credits header
Digits == <<"0", "1", "2", "3", "4", "5", "6", "7", "8", "9">>

RECURSIVE ItoaNat(_)
ItoaNat(n) ==
  IF n < 10 THEN <<Digits[n + 1]>>
  ELSE Append(ItoaNat(n \div 10), Digits[(n % 10) + 1])

Itoa(n) == IF n < 0 THEN <<"-">> \o ItoaNat(-n) ELSE ItoaNat(n)

DigitVal(c) == CHOOSE d \in 0..9 : Digits[d + 1] = c

IsDigit(c) == \E d \in 0..9 : Digits[d + 1] = c

RECURSIVE ParseNat(_, _)
ParseNat(s, acc) ==
  IF s = <<>> THEN acc
  ELSE ParseNat(Tail(s), acc * 10 + DigitVal(Head(s)))

\* strconv.ParseInt(s, 10, 64) with the error dropped: 0 on a syntax error
ParseInt(s) ==
  LET neg == s # <<>> /\ Head(s) = "-"
      pos == s # <<>> /\ Head(s) = "+"
      body == IF neg \/ pos THEN Tail(s) ELSE s
  IN IF body = <<>> \/ \E i \in 1..Len(body) : ~IsDigit(body[i])
     THEN 0
     ELSE IF neg THEN -ParseNat(body, 0) ELSE ParseNat(body, 0)

\* the errors the invoker may return
TransportErrors == {"Unavailable"}

\* the values of the credits header a reply may carry
HeaderValues == {Itoa(v) : v \in (-1)..MaxGrant} \cup {<<"x">>}

\* -------------------------------------------------------- channel helpers
\* len(b.pendingOutgoing)
getDemand == Len(pendingOutgoing)

\* mutant of QueueAdded: the capacity test is off by one
QueueAddedOffByOne == Len(pendingOutgoing) <= PendingCap

\* select { case b.pendingOutgoing <- 1: true; default: false }
QueueAdded == Len(pendingOutgoing) < PendingCap

\* mutant of queueRequest: the token is never sent
queueRequestNoSend == pendingOutgoing

\* the channel after the send of queueRequest
queueRequest == IF QueueAdded THEN Append(pendingOutgoing, 1) ELSE pendingOutgoing

\* select { case <-b.pendingOutgoing: true; default: false }
dequeueRequest == IF pendingOutgoing # <<>> THEN Tail(pendingOutgoing) ELSE pendingOutgoing

\* mutant of unblockNoCreditBlock: the signal is never sent
unblockNoCreditBlockNoSend == noCreditBlocker

\* select { case b.noCreditBlocker <- 1: ; default: }
unblockNoCreditBlock == IF noCreditBlocker = <<>> THEN <<1>> ELSE noCreditBlocker

\* -------------------------------------------------------------------- Init
Init ==
  /\ outgoingCredits \in {<<c>> : c \in 0..MaxInitCredits}
  /\ noCreditBlocker = <<1>>
  /\ pendingOutgoing = <<>>
  /\ useClientQueueLength \in BOOLEAN
  /\ useClientTimeExpiration \in BOOLEAN
  /\ creditsOnFail \in BOOLEAN
  /\ pc = [p \in Procs |-> "idle"]
  /\ sinceStart = [p \in Procs |-> 0]
  /\ local = [p \in Procs |-> 0]
  /\ demand = [p \in Procs |-> 0]
  /\ ctxDone = [p \in Procs |-> FALSE]
  /\ outcome = [p \in Procs |-> "none"]
  /\ header = [p \in Procs |-> NoHeader]
  /\ result = [p \in Procs |-> "none"]
  /\ decs = [p \in Procs |-> 0]
  /\ admissions = [p \in Procs |-> 0]
  /\ restored = [p \in Procs |-> 0]
  /\ floored = [p \in Procs |-> 0]
  /\ signalled = [p \in Procs |-> 0]
  /\ grantFresh = FALSE
  /\ supplied = Head(outgoingCredits)
  /\ ledger = Head(outgoingCredits)
  /\ enqueued = [p \in Procs |-> 0]
  /\ invocations = [p \in Procs |-> 0]
  /\ transportErr = [p \in Procs |-> "none"]
  /\ returned = [p \in Procs |-> "none"]

flags == <<useClientQueueLength, useClientTimeExpiration, creditsOnFail>>
hist == <<decs, admissions, restored, floored, signalled, grantFresh>>
reply == <<outcome, header>>

\* ------------------------------------------------- the gate (lines 63-121)
\* positions of the loop of lines 76-121
GatePcs == {"wait", "check", "take", "put"}

\* lines 63-69: timeStart, queueRequest, the queue-full return
Start(p) ==
  /\ pc[p] = "idle"
  /\ pendingOutgoing' = queueRequest
  /\ enqueued' = [enqueued EXCEPT ![p] = Len(pendingOutgoing') - Len(pendingOutgoing)]
  /\ IF useClientQueueLength /\ ~QueueAdded
     THEN /\ pc' = [pc EXCEPT ![p] = "done"]
          /\ result' = [result EXCEPT ![p] = "queue_full"]
          /\ returned' = [returned EXCEPT ![p] = "ResourceExhausted"]
          /\ UNCHANGED sinceStart
     ELSE /\ pc' = [pc EXCEPT ![p] = "wait"]
          /\ sinceStart' = [sinceStart EXCEPT ![p] = 0]
          /\ UNCHANGED <<result, returned>>
  /\ UNCHANGED <<outgoingCredits, noCreditBlocker, flags, local, demand,
                 ctxDone, reply, hist>>
  /\ UNCHANGED <<supplied, ledger, invocations, transportErr>>

\* line 80: <-b.noCreditBlocker, which reads neither the clock nor ctx
Wake(p) ==
  /\ pc[p] = "wait"
  /\ noCreditBlocker # <<>>
  /\ noCreditBlocker' = Tail(noCreditBlocker)
  /\ pc' = [pc EXCEPT ![p] = "check"]
  /\ ctxDone' = [ctxDone EXCEPT ![p] = FALSE]
  /\ UNCHANGED <<outgoingCredits, pendingOutgoing, flags, sinceStart, local,
                 demand, reply, result, hist>>
  /\ UNCHANGED <<supplied, ledger, enqueued, invocations, transportErr, returned>>

\* lines 86-87: timeTaken > b.clientExpiration
Expired(p) == sinceStart[p] > ClientExpiration

\* lines 85-95: the expiration test after the wake
CheckExpiry(p) ==
  /\ pc[p] = "check"
  /\ pc' = [pc EXCEPT ![p] = IF useClientTimeExpiration /\ Expired(p)
                             THEN "exp_unblock" ELSE "take"]
  /\ UNCHANGED <<outgoingCredits, noCreditBlocker, pendingOutgoing, flags,
                 sinceStart, local, demand, ctxDone, reply, result, hist>>
  /\ UNCHANGED <<supplied, ledger, enqueued, invocations, transportErr, returned>>

\* line 90: b.unblockNoCreditBlock() of the expired request
ExpUnblock(p) ==
  /\ pc[p] = "exp_unblock"
  /\ noCreditBlocker' = unblockNoCreditBlock
  /\ pc' = [pc EXCEPT ![p] = "exp_dequeue"]
  /\ UNCHANGED <<outgoingCredits, pendingOutgoing, flags, sinceStart, local,
                 demand, ctxDone, reply, result, hist>>
  /\ UNCHANGED <<supplied, ledger, enqueued, invocations, transportErr, returned>>

\* lines 91-93: b.dequeueRequest() and the expired return
ExpDequeue(p) ==
  /\ pc[p] = "exp_dequeue"
  /\ pendingOutgoing' = dequeueRequest
  /\ enqueued' = [enqueued EXCEPT ![p] = 0]
  /\ pc' = [pc EXCEPT ![p] = "done"]
  /\ result' = [result EXCEPT ![p] = "expired"]
  /\ returned' = [returned EXCEPT ![p] = "ResourceExhausted"]
  /\ sinceStart' = [sinceStart EXCEPT ![p] = 0]
  /\ UNCHANGED <<outgoingCredits, noCreditBlocker, flags, local, demand,
                 ctxDone, reply, hist>>
  /\ UNCHANGED <<supplied, ledger, invocations, transportErr>>

\* line 99: creditBalance := <-b.outgoingCredits
TakeCredits(p) ==
  /\ pc[p] = "take"
  /\ outgoingCredits # <<>>
  /\ local' = [local EXCEPT ![p] = Head(outgoingCredits)]
  /\ outgoingCredits' = Tail(outgoingCredits)
  /\ pc' = [pc EXCEPT ![p] = "put"]
  /\ grantFresh' = FALSE
  /\ UNCHANGED <<noCreditBlocker, pendingOutgoing, flags, sinceStart, demand,
                 ctxDone, reply, result, decs, admissions, restored, floored, signalled>>
  /\ UNCHANGED <<supplied, ledger, enqueued, invocations, transportErr, returned>>

\* mutant of GateAdmits: a zero balance admits
GateAdmitsZero(creditBalance) == creditBalance >= 0

\* line 100: creditBalance > 0
GateAdmits(creditBalance) == creditBalance > 0

\* mutant of CreditsRemain: the last credit is not announced
CreditsRemainAboveOne(creditBalance) == creditBalance > 1

\* line 107: creditBalance > 0 after the decrement
CreditsRemain(creditBalance) == creditBalance > 0

\* one credit is consumed: a positive balance is read and written back less one
Decrement(read, written) == read > 0 /\ written = read - 1

\* lines 100-117: write the balance back, decremented when it was positive
PutCredits(p) ==
  /\ pc[p] = "put"
  /\ Len(outgoingCredits) < 1
  /\ IF GateAdmits(local[p])
     THEN /\ outgoingCredits' = Append(outgoingCredits, local[p] - 1)
          /\ decs' = [decs EXCEPT ![p] = IF Decrement(local[p], outgoingCredits'[1])
                                         THEN decs[p] + 1 ELSE decs[p]]
          /\ admissions' = [admissions EXCEPT ![p] = admissions[p] + 1]
          /\ ledger' = ledger - 1
          /\ pc' = [pc EXCEPT ![p] = IF CreditsRemain(local[p] - 1)
                                     THEN "cascade" ELSE "demand"]
          /\ sinceStart' = [sinceStart EXCEPT ![p] = 0]
     ELSE /\ outgoingCredits' = Append(outgoingCredits, 0)
          /\ pc' = [pc EXCEPT ![p] = "wait"]
          /\ UNCHANGED <<sinceStart, decs, admissions, ledger>>
  /\ local' = [local EXCEPT ![p] = 0]
  /\ UNCHANGED <<noCreditBlocker, pendingOutgoing, flags, demand, ctxDone,
                 reply, result, restored, floored, signalled, grantFresh>>
  /\ UNCHANGED <<supplied, enqueued, invocations, transportErr, returned>>

\* lines 107-109: credits remain, unblock another request
Cascade(p) ==
  /\ pc[p] = "cascade"
  /\ noCreditBlocker' = unblockNoCreditBlock
  /\ pc' = [pc EXCEPT ![p] = "demand"]
  /\ UNCHANGED <<outgoingCredits, pendingOutgoing, flags, sinceStart, local,
                 demand, ctxDone, reply, result, hist>>
  /\ UNCHANGED <<supplied, ledger, enqueued, invocations, transportErr, returned>>

\* ------------------------------------------- after the gate (lines 123-166)
\* line 124: demand := b.getDemand()
Demand(p) ==
  /\ pc[p] = "demand"
  /\ demand' = [demand EXCEPT ![p] = getDemand]
  /\ pc' = [pc EXCEPT ![p] = "dequeue"]
  /\ UNCHANGED <<outgoingCredits, noCreditBlocker, pendingOutgoing, flags,
                 sinceStart, local, ctxDone, reply, result, hist>>
  /\ UNCHANGED <<supplied, ledger, enqueued, invocations, transportErr, returned>>

\* lines 131-134: b.dequeueRequest(), then the invoker is called
Dequeue(p) ==
  /\ pc[p] = "dequeue"
  /\ pendingOutgoing' = dequeueRequest
  /\ enqueued' = [enqueued EXCEPT ![p] = 0]
  /\ invocations' = [invocations EXCEPT ![p] = invocations[p] + 1]
  /\ pc' = [pc EXCEPT ![p] = "invoke"]
  /\ UNCHANGED <<outgoingCredits, noCreditBlocker, flags, sinceStart, local,
                 demand, ctxDone, reply, result, hist>>
  /\ UNCHANGED <<supplied, ledger, transportErr, returned>>

\* mutant of ReturnValue: an error is returned as the gate's own status
ReturnValueExhausted(err) == IF err = "nil" THEN "nil" ELSE "ResourceExhausted"

\* lines 147, 165: return err
ReturnValue(err) == err

\* lines 134-137, 150: the invoker returns an error
InvokeErr(p) ==
  /\ pc[p] = "invoke"
  /\ outcome' = [outcome EXCEPT ![p] = "err"]
  /\ \E e \in TransportErrors : transportErr' = [transportErr EXCEPT ![p] = e]
  /\ IF creditsOnFail
     THEN /\ pc' = [pc EXCEPT ![p] = "err_select"]
          /\ UNCHANGED <<result, returned>>
     ELSE /\ pc' = [pc EXCEPT ![p] = "done"]
          /\ result' = [result EXCEPT ![p] = "err"]
          /\ returned' = [returned EXCEPT ![p] = ReturnValue(transportErr'[p])]
  /\ demand' = [demand EXCEPT ![p] = 0]
  /\ UNCHANGED <<outgoingCredits, noCreditBlocker, pendingOutgoing, flags,
                 sinceStart, local, ctxDone, header, hist>>
  /\ UNCHANGED <<supplied, ledger, enqueued, invocations>>

\* lines 134, 150: the invoker returns nil, the reply with or without credits
InvokeOk(p) ==
  /\ pc[p] = "invoke"
  /\ \E h \in HeaderValues \cup {NoHeader} :
       /\ header' = [header EXCEPT ![p] = h]
       /\ outcome' = [outcome EXCEPT ![p] = IF Len(h) > 0 THEN "hdr" ELSE "nohdr"]
       /\ pc' = [pc EXCEPT ![p] = IF Len(h) > 0 THEN "hdr_take" ELSE "floor_take"]
  /\ transportErr' = [transportErr EXCEPT ![p] = "nil"]
  /\ demand' = [demand EXCEPT ![p] = 0]
  /\ UNCHANGED <<outgoingCredits, noCreditBlocker, pendingOutgoing, flags,
                 sinceStart, local, ctxDone, result, hist>>
  /\ UNCHANGED <<supplied, ledger, enqueued, invocations, returned>>

\* lines 138-144: select { case credit := <-b.outgoingCredits: ...; default: }
ErrSelect(p) ==
  /\ pc[p] = "err_select"
  /\ IF outgoingCredits # <<>>
     THEN /\ local' = [local EXCEPT ![p] = Head(outgoingCredits)]
          /\ outgoingCredits' = Tail(outgoingCredits)
          /\ pc' = [pc EXCEPT ![p] = "err_put"]
     ELSE /\ pc' = [pc EXCEPT ![p] = "err_unblock"]
          /\ UNCHANGED <<local, outgoingCredits>>
  /\ UNCHANGED <<noCreditBlocker, pendingOutgoing, flags, sinceStart, demand,
                 ctxDone, reply, result, hist>>
  /\ UNCHANGED <<supplied, ledger, enqueued, invocations, transportErr, returned>>

\* line 140: b.outgoingCredits <- credit + 1
ErrPut(p) ==
  /\ pc[p] = "err_put"
  /\ Len(outgoingCredits) < 1
  /\ outgoingCredits' = Append(outgoingCredits, local[p] + 1)
  /\ restored' = [restored EXCEPT ![p] = restored[p] + 1]
  /\ ledger' = ledger + 1
  /\ pc' = [pc EXCEPT ![p] = "err_unblock"]
  /\ local' = [local EXCEPT ![p] = 0]
  /\ UNCHANGED <<noCreditBlocker, pendingOutgoing, flags, sinceStart, demand,
                 ctxDone, reply, result, decs, admissions, floored, signalled, grantFresh>>
  /\ UNCHANGED <<supplied, enqueued, invocations, transportErr, returned>>

\* lines 145-147: b.unblockNoCreditBlock(); return err
ErrUnblock(p) ==
  /\ pc[p] = "err_unblock"
  /\ noCreditBlocker' = unblockNoCreditBlock
  /\ signalled' = [signalled EXCEPT ![p] = signalled[p] + 1]
  /\ pc' = [pc EXCEPT ![p] = "done"]
  /\ result' = [result EXCEPT ![p] = "err"]
  /\ returned' = [returned EXCEPT ![p] = ReturnValue(transportErr[p])]
  /\ UNCHANGED <<outgoingCredits, pendingOutgoing, flags, sinceStart, local,
                 demand, ctxDone, reply, decs, admissions, restored, floored, grantFresh>>
  /\ UNCHANGED <<supplied, ledger, enqueued, invocations, transportErr>>

\* line 155: <-b.outgoingCredits, the value dropped
HdrTake(p) ==
  /\ pc[p] = "hdr_take"
  /\ outgoingCredits # <<>>
  /\ outgoingCredits' = Tail(outgoingCredits)
  /\ pc' = [pc EXCEPT ![p] = "hdr_put"]
  /\ UNCHANGED <<noCreditBlocker, pendingOutgoing, flags, sinceStart, local,
                 demand, ctxDone, reply, result, hist>>
  /\ UNCHANGED <<supplied, ledger, enqueued, invocations, transportErr, returned>>

\* mutant of GrantValue: the grant is written without the floor
GrantValueNoFloor(h) == ParseInt(h)

\* mutant of GrantValue: the grant is floored at zero
GrantValueZeroFloor(h) == Max(ParseInt(h), 0)

\* lines 151, 156: max(cXNew, 1) of the parsed header
GrantValue(h) == Max(ParseInt(h), 1)

\* line 156: b.outgoingCredits <- max(cXNew, 1)
HdrPut(p) ==
  /\ pc[p] = "hdr_put"
  /\ Len(outgoingCredits) < 1
  /\ outgoingCredits' = Append(outgoingCredits, GrantValue(header[p]))
  /\ pc' = [pc EXCEPT ![p] = "hdr_unblock"]
  /\ grantFresh' = (grantFresh \/ ParseInt(header[p]) > 0)
  /\ supplied' = supplied + Max(ParseInt(header[p]), 1)
  /\ ledger' = Max(ParseInt(header[p]), 1)
  /\ UNCHANGED <<noCreditBlocker, pendingOutgoing, flags, sinceStart, local,
                 demand, ctxDone, reply, result, decs, admissions, restored, floored,
                 signalled>>
  /\ UNCHANGED <<enqueued, invocations, transportErr, returned>>

\* lines 157, 165: b.unblockNoCreditBlock(); return err (nil)
HdrUnblock(p) ==
  /\ pc[p] = "hdr_unblock"
  /\ noCreditBlocker' = unblockNoCreditBlock
  /\ signalled' = [signalled EXCEPT ![p] = signalled[p] + 1]
  /\ pc' = [pc EXCEPT ![p] = "done"]
  /\ result' = [result EXCEPT ![p] = "ok"]
  /\ returned' = [returned EXCEPT ![p] = ReturnValue(transportErr[p])]
  /\ header' = [header EXCEPT ![p] = NoHeader]
  /\ UNCHANGED <<outgoingCredits, pendingOutgoing, flags, sinceStart, local,
                 demand, ctxDone, outcome, decs, admissions, restored, floored, grantFresh>>
  /\ UNCHANGED <<supplied, ledger, enqueued, invocations, transportErr>>

\* mutant of FloorTake: the balance is read and left in the channel
FloorTakePeek(p) ==
  /\ pc[p] = "floor_take"
  /\ outgoingCredits # <<>>
  /\ local' = [local EXCEPT ![p] = Head(outgoingCredits)]
  /\ outgoingCredits' = outgoingCredits
  /\ pc' = [pc EXCEPT ![p] = "floor_put"]
  /\ UNCHANGED <<noCreditBlocker, pendingOutgoing, flags, sinceStart, demand,
                 ctxDone, reply, result, hist>>
  /\ UNCHANGED <<supplied, ledger, enqueued, invocations, transportErr, returned>>

\* line 161: outgoingCredits := <-b.outgoingCredits
FloorTake(p) ==
  /\ pc[p] = "floor_take"
  /\ outgoingCredits # <<>>
  /\ local' = [local EXCEPT ![p] = Head(outgoingCredits)]
  /\ outgoingCredits' = Tail(outgoingCredits)
  /\ pc' = [pc EXCEPT ![p] = "floor_put"]
  /\ UNCHANGED <<noCreditBlocker, pendingOutgoing, flags, sinceStart, demand,
                 ctxDone, reply, result, hist>>
  /\ UNCHANGED <<supplied, ledger, enqueued, invocations, transportErr, returned>>

\* mutant of FloorValue: the balance is written back as it was read
FloorValueIdentity(credits) == credits

\* line 162: max(outgoingCredits, 1)
FloorValue(credits) == Max(credits, 1)

\* line 162: b.outgoingCredits <- max(outgoingCredits, 1)
FloorPut(p) ==
  /\ pc[p] = "floor_put"
  /\ Len(outgoingCredits) < 1
  /\ outgoingCredits' = Append(outgoingCredits, FloorValue(local[p]))
  /\ floored' = [floored EXCEPT ![p] = floored[p] + 1]
  /\ ledger' = Max(ledger, 1)
  /\ pc' = [pc EXCEPT ![p] = "floor_unblock"]
  /\ local' = [local EXCEPT ![p] = 0]
  /\ UNCHANGED <<noCreditBlocker, pendingOutgoing, flags, sinceStart, demand,
                 ctxDone, reply, result, decs, admissions, restored, signalled, grantFresh>>
  /\ UNCHANGED <<supplied, enqueued, invocations, transportErr, returned>>

\* lines 163, 165: b.unblockNoCreditBlock(); return err (nil)
FloorUnblock(p) ==
  /\ pc[p] = "floor_unblock"
  /\ noCreditBlocker' = unblockNoCreditBlock
  /\ signalled' = [signalled EXCEPT ![p] = signalled[p] + 1]
  /\ pc' = [pc EXCEPT ![p] = "done"]
  /\ result' = [result EXCEPT ![p] = "ok"]
  /\ returned' = [returned EXCEPT ![p] = ReturnValue(transportErr[p])]
  /\ UNCHANGED <<outgoingCredits, pendingOutgoing, flags, sinceStart, local,
                 demand, ctxDone, reply, decs, admissions, restored, floored, grantFresh>>
  /\ UNCHANGED <<supplied, ledger, enqueued, invocations, transportErr>>

\* ------------------------------------------------------------ environment
\* time.Since(timeStart) after one more tick of the clock
Later(p) ==
  IF pc[p] \in GatePcs /\ sinceStart[p] <= ClientExpiration
  THEN sinceStart[p] + 1 ELSE sinceStart[p]

\* the clock advances, for every call that is in the gate
Tick ==
  /\ \E p \in Procs : Later(p) # sinceStart[p]
  /\ sinceStart' = [p \in Procs |-> Later(p)]
  /\ UNCHANGED <<outgoingCredits, noCreditBlocker, pendingOutgoing, flags, pc,
                 local, demand, ctxDone, reply, result, hist>>
  /\ UNCHANGED <<supplied, ledger, enqueued, invocations, transportErr, returned>>

\* the caller cancels ctx, or its deadline passes, during the gate's wait
Cancel(p) ==
  /\ pc[p] = "wait"
  /\ ~ctxDone[p]
  /\ ctxDone' = [ctxDone EXCEPT ![p] = TRUE]
  /\ UNCHANGED <<outgoingCredits, noCreditBlocker, pendingOutgoing, flags, pc,
                 sinceStart, local, demand, reply, result, hist>>
  /\ UNCHANGED <<supplied, ledger, enqueued, invocations, transportErr, returned>>

\* one step of goroutine p inside UnaryInterceptorClient, the invoker excluded
Step(p) ==
  \/ Start(p) \/ Wake(p) \/ CheckExpiry(p) \/ ExpUnblock(p) \/ ExpDequeue(p)
  \/ TakeCredits(p) \/ PutCredits(p) \/ Cascade(p) \/ Demand(p) \/ Dequeue(p)
  \/ ErrSelect(p) \/ ErrPut(p) \/ ErrUnblock(p)
  \/ HdrTake(p) \/ HdrPut(p) \/ HdrUnblock(p)
  \/ FloorTake(p) \/ FloorPut(p) \/ FloorUnblock(p)

\* the invoker of goroutine p returns
Complete(p) == InvokeErr(p) \/ InvokeOk(p)

Next ==
  \/ \E p \in Procs : Step(p)
  \/ \E p \in Procs : Complete(p)
  \/ \E p \in Procs : Cancel(p)
  \/ Tick

Spec == Init /\ [][Next]_vars

\* goroutines are scheduled fairly; the transport, the clock and the caller's
\* cancellation are under no obligation
FairSpec == Spec /\ \A p \in Procs : WF_vars(Step(p))

\* ----------------------------------------------------------------- claims
\* positions after the invoker was called
InvokedPcs == {"invoke", "err_select", "err_put", "err_unblock", "hdr_take",
               "hdr_put", "hdr_unblock", "floor_take", "floor_put", "floor_unblock"}

\* the invoker of p has been called
Invoked(p) == pc[p] \in InvokedPcs \/ outcome[p] # "none"

\* no invoker has returned yet
NoReplyYet == \A q \in Procs : outcome[q] = "none"

\* the server answers one call and no other: at most one invoker returns
SingleReplyNext ==
  \/ \E p \in Procs : Step(p)
  \/ \E p \in Procs : NoReplyYet /\ Complete(p)
  \/ \E p \in Procs : Cancel(p)
  \/ Tick

SingleReplySpec ==
  Init /\ [][SingleReplyNext]_vars /\ \A p \in Procs : WF_vars(Step(p))

\* the balance in the channel is positive
CreditsAvailable == outgoingCredits # <<>> /\ Head(outgoingCredits) > 0

\* the calls that left the loop of lines 76-121, admitted or expired
LeftGate == {p \in Procs : pc[p] \notin GatePcs \cup {"idle"} /\ result[p] # "queue_full"}

\* the calls that returned the queue-full error
QueueFull == {p \in Procs : result[p] = "queue_full"}

\* C1: with expiration enabled, when no reply ever arrives, a call that waits
\* on noCreditBlocker with a zero balance past its expiration eventually
\* returns the expired error.
C1_ExpiredWaiterReturns ==
  ([]NoReplyYet) =>
    \A p \in Procs :
      [](useClientTimeExpiration /\ pc[p] = "wait" /\ Expired(p)
           /\ outgoingCredits = <<0>>
         => <>(result[p] = "expired"))

\* C2: no lost wake-up: while the balance is positive and a call is in the
\* loop of the gate, one more call eventually leaves the loop, admitted or
\* expired.
C2_ProgressWithCredits ==
  \A k \in 0..NumProcs :
    (CreditsAvailable /\ (\E p \in Procs : pc[p] \in GatePcs)
       /\ Cardinality(LeftGate) = k)
    ~> (Cardinality(LeftGate) > k)

\* C2 witness: a blocked waiter whose wake-up rests on the cascade signal
C2_Witness ==
  \E p, q \in Procs :
    /\ pc[p] = "cascade" /\ pc[q] = "wait"
    /\ CreditsAvailable /\ noCreditBlocker = <<>>

\* C3: the balance held in, or taken from, outgoingCredits is never negative.
C3_CreditsNonNegative ==
  /\ \A i \in 1..Len(outgoingCredits) : outgoingCredits[i] >= 0
  /\ \A p \in Procs : local[p] >= 0

\* C3 witness: a reply carrying a negative credits value was written
C3_Witness ==
  \E p \in Procs :
    /\ pc[p] = "hdr_unblock" /\ ParseInt(header[p]) < 0
    /\ outgoingCredits = <<1>>

\* C4: a call whose invoker was called read a positive balance and wrote it
\* back minus one, exactly once; no other call has decremented.
C4_OneCreditPerInvoke ==
  \A p \in Procs :
    /\ Invoked(p) =>
         /\ admissions[p] = 1
         /\ decs[p] = 1
    /\ decs[p] <= 1

\* C4 witness: two calls are at the transport, each after its own decrement
C4_Witness ==
  \E p, q \in Procs :
    /\ p # q /\ pc[p] = "invoke" /\ pc[q] = "invoke"
    /\ decs[p] = 1 /\ decs[q] = 1 /\ outgoingCredits = <<0>>

\* C5: a call that returned the transport's error with creditsOnFail set
\* wrote the balance back plus one, once, and signalled.
C5_FailureRestoresCredit ==
  \A p \in Procs :
    creditsOnFail /\ pc[p] = "done" /\ outcome[p] = "err"
      => restored[p] = 1 /\ signalled[p] = 1

\* a completion that is neither (error and creditsOnFail) nor a credits header
NoGrantCompletion(p) ==
  \/ outcome[p] = "nohdr"
  \/ outcome[p] = "err" /\ ~creditsOnFail

\* C6: a call that returned from a completion without grant wrote
\* max(balance, 1) and signalled; the client is never left with a zero
\* balance, no pending signal and nothing in flight after a completion.
C6_FloorAfterCompletion ==
  /\ \A p \in Procs :
       pc[p] = "done" /\ NoGrantCompletion(p)
         => floored[p] = 1 /\ signalled[p] = 1
  /\ ~ /\ outgoingCredits = <<0>>
       /\ noCreditBlocker = <<>>
       /\ \A p \in Procs : pc[p] \in {"idle", "wait", "done"}
       /\ \E p \in Procs : NoGrantCompletion(p)

\* C7: a reply carrying credits = v overwrites the balance with max(v, 1) and
\* signals; the next gate to read the balance after a reply with v > 0 reads
\* at least 1.
C7_GrantOverwrites ==
  [][\A p \in Procs :
       /\ pc[p] = "hdr_put" /\ pc'[p] = "hdr_unblock"
            => outgoingCredits' = <<Max(ParseInt(header[p]), 1)>>
       /\ pc[p] = "hdr_unblock" /\ pc'[p] = "done" => noCreditBlocker' = <<1>>
       /\ grantFresh /\ pc[p] = "take" /\ pc'[p] = "put" => local'[p] >= 1]_vars

\* C7 witness: two replies were ingested and the balance is the later grant,
\* which differs from the earlier one
C7_Witness ==
  \E p, q \in Procs :
    /\ pc[p] = "hdr_unblock" /\ outcome[q] = "hdr" /\ pc[q] = "done"
    /\ outgoingCredits = <<ParseInt(header[p])>>
    /\ ParseInt(header[p]) = 1 /\ signalled[q] = 1 /\ grantFresh

AllSubmittedStalled ==
  /\ NoReplyYet
  /\ \A p \in Procs : pc[p] # "idle" /\ (pc[p] = "done" => result[p] = "queue_full")

\* no call has run dequeueRequest
NoneDequeued ==
  \A p \in Procs :
    pc[p] \notin InvokedPcs /\ result[p] \notin {"expired", "ok", "err"}

\* the calls in excess of the queue's capacity
Excess == Max(NumProcs - PendingCap, 0)

\* C9 as claimed, where the queue-full return exists (useClientQueueLength):
\* of N+1 calls against a server that never replies, exactly one returns the
\* queue-full error.
C9_ExactlyOneQueueFull ==
  useClientQueueLength /\ AllSubmittedStalled /\ NumProcs = PendingCap + 1
    => Cardinality(QueueFull) = 1

\* C9 amended: of N+1 calls at most one returns the queue-full error, and
\* exactly one does when useClientQueueLength is set and no call has left
\* the queue before the last one arrives.
C9_AtMostOneQueueFull ==
  /\ Cardinality(QueueFull) <= Excess
  /\ useClientQueueLength /\ AllSubmittedStalled /\ NoneDequeued
       => Cardinality(QueueFull) = Excess

\* C9 witness: all calls are submitted, none left the queue, one was refused
C9_Witness ==
  /\ AllSubmittedStalled /\ NoneDequeued /\ NumProcs = PendingCap + 1
  /\ Cardinality(QueueFull) = 1

\* C10: a call whose ctx is cancelled, or past its deadline, while it waits
\* on noCreditBlocker eventually returns a failure.
C10_CancelledWaiterReturns ==
  \A p \in Procs :
    (pc[p] = "wait" /\ ctxDone[p])
      ~> (pc[p] = "done" /\ result[p] \in {"expired", "err"})

\* the sum of f[1..n]
RECURSIVE SumTo(_, _)
SumTo(f, n) == IF n = 0 THEN 0 ELSE f[n] + SumTo(f, n - 1)

\* credits consumed by the calls that reached the transport
Consumed == SumTo(decs, NumProcs)

\* credits written back by the creditsOnFail branch
Restored == SumTo(restored, NumProcs)

\* every call that was made has returned
AllReturned == \A p \in Procs : pc[p] \in {"idle", "done"}

\* C11 as claimed: in a quiescent state the credits consumed equal the
\* initial balance plus the credits granted by replies plus the credits
\* restored, minus the current balance.
C11_CreditConservation ==
  AllReturned => Consumed = supplied + Restored - Head(outgoingCredits)

\* C11 amended: whenever no goroutine holds the balance, it equals the value
\* the last reply set (max(v, 1) for credits = v, max(balance, 1) without
\* credits; the initial balance before any reply), minus one per call
\* admitted since, plus one per credit restored since.
C11_BalanceFollowsLastGrant ==
  outgoingCredits # <<>> => Head(outgoingCredits) = ledger

\* C11 witness: all calls returned, a reply replaced a balance, credits were
\* consumed, and the additive account does not balance
C11_Witness ==
  /\ AllReturned /\ Consumed = NumProcs
  /\ \E p \in Procs : outcome[p] = "hdr"
  /\ \E p \in Procs : outcome[p] = "err" /\ restored[p] = 1
  /\ Head(outgoingCredits) = ledger
  /\ Consumed # supplied + Restored - Head(outgoingCredits)

\* the call has run dequeueRequest (line 91 or line 131)
RanDequeue(p) == pc[p] \in InvokedPcs \/ result[p] \in {"expired", "ok", "err"}

\* the calls that have enqueued and not yet dequeued
PendingCalls == {p \in Procs : enqueued[p] = 1 /\ ~RanDequeue(p)}

\* C12: a call's dequeueRequest removes exactly the tokens the call added,
\* and the queue-full return leaves the queue alone; the length of
\* pendingOutgoing is the number of calls that have enqueued and not yet
\* dequeued, and it is 0 once all calls have returned.
C12_QueueDepthRestored ==
  /\ [](Len(pendingOutgoing) = Cardinality(PendingCalls))
  /\ [](AllReturned => Len(pendingOutgoing) = 0)
  /\ [][\A p \in Procs :
         /\ pc[p] \in {"dequeue", "exp_dequeue"} /\ pc'[p] # pc[p]
              => Len(pendingOutgoing) - Len(pendingOutgoing') = enqueued[p]
         /\ pc[p] = "idle" /\ pc'[p] = "done"
              => UNCHANGED pendingOutgoing]_vars

\* C13: with expiration configured, a call that is past its expiration when
\* it is tested after the wake takes the expired path whatever the balance
\* is; on that path it signals noCreditBlocker, removes one token from
\* pendingOutgoing, returns ResourceExhausted without having called the
\* invoker, and leaves outgoingCredits as it was.
C13_ExpirationPath ==
  [][\A p \in Procs :
       /\ useClientTimeExpiration /\ pc[p] = "check" /\ Expired(p) /\ pc'[p] # "check"
            => pc'[p] = "exp_unblock" /\ UNCHANGED outgoingCredits
       /\ pc[p] = "exp_unblock" /\ pc'[p] # "exp_unblock"
            => /\ pc'[p] = "exp_dequeue"
               /\ noCreditBlocker' = <<1>>
               /\ UNCHANGED outgoingCredits
       /\ pc[p] = "exp_dequeue" /\ pc'[p] # "exp_dequeue"
            => /\ pc'[p] = "done" /\ result'[p] = "expired"
               /\ returned'[p] = "ResourceExhausted"
               /\ Len(pendingOutgoing') = Len(pendingOutgoing) - 1
               /\ invocations'[p] = 0 /\ outcome'[p] = "none"
               /\ UNCHANGED outgoingCredits]_vars

\* the call failed locally: queue full or expired
FailedLocally(p) == result[p] \in {"queue_full", "expired"}

\* C14: a call calls the invoker at most once, and exactly once if and only
\* if it did not fail locally; a call that called it returns the invoker's
\* result, nil or its error, and no other.
C14_NoRetries ==
  \A p \in Procs :
    /\ invocations[p] <= 1
    /\ pc[p] = "done" => (invocations[p] = 1 <=> ~FailedLocally(p))
    /\ pc[p] = "done" /\ ~FailedLocally(p)
         => transportErr[p] # "none" /\ returned[p] = transportErr[p]
    /\ FailedLocally(p) => transportErr[p] = "none"

\* C14 witness: one call returned the transport's error, which is not the
\* gate's own status, and the other failed locally without a transport call
C14_Witness ==
  \E p, q \in Procs :
    /\ pc[p] = "done" /\ invocations[p] = 1 /\ returned[p] = "Unavailable"
    /\ pc[q] = "done" /\ result[q] = "expired" /\ invocations[q] = 0

\* the smaller of a and b
Min(a, b) == IF a < b THEN a ELSE b

\* the calls in the loop of the gate
Blocked == {q \in Procs : pc[q] \in GatePcs}

\* the reply of p, carrying credits = k, is about to replace a zero balance
\* while exactly the calls of S are blocked and no call is still to come
GrantArrives(p, S, k) ==
  /\ pc[p] = "hdr_take" /\ ParseInt(header[p]) = k
  /\ outgoingCredits = <<0>>
  /\ Blocked = S
  /\ \A q \in Procs : pc[q] # "idle"

SignalPcs == {"cascade", "err_unblock", "hdr_unblock", "floor_unblock"}

\* positions between a wake and the end of the gate's iteration, and between
\* the invoker's return and the last signal of the reply section
MidSectionPcs ==
  {"check", "take", "put", "cascade", "exp_unblock",
   "err_select", "err_put", "err_unblock", "hdr_take", "hdr_put", "hdr_unblock",
   "floor_take", "floor_put", "floor_unblock"}

\* no goroutine is in the middle of the gate or of the reply section
Quiet == \A p \in Procs : pc[p] \notin MidSectionPcs

\* C16: a goroutine that writes a positive balance signals noCreditBlocker
\* next, and whenever no goroutine is in the middle of the gate or of the
\* reply section a positive balance comes with a pending signal.
C16_WakeSignal ==
  /\ [](Quiet /\ CreditsAvailable => noCreditBlocker = <<1>>)
  /\ [][\A p \in Procs :
         /\ pc'[p] # pc[p] /\ outgoingCredits = <<>> /\ outgoingCredits' # <<>>
              /\ Head(outgoingCredits') > 0
              => pc'[p] \in SignalPcs
         /\ pc[p] \in SignalPcs /\ pc'[p] # pc[p]
              => noCreditBlocker' = <<1>>]_vars

\* C16 witness: a reply raised a zero balance and signalled, and a waiter is
\* still blocked while nobody is in the middle of a section
C16_Witness ==
  \E p, q \in Procs :
    /\ pc[p] = "done" /\ outcome[p] = "nohdr" /\ floored[p] = 1
    /\ supplied = 1 /\ Consumed = 1
    /\ pc[q] = "wait" /\ Quiet
    /\ outgoingCredits = <<1>> /\ noCreditBlocker = <<1>>

\* C17: the demand a sent request carries is read while the request's own
\* token is in pendingOutgoing: it is at least 1, at most the capacity, and
\* the number of calls that have enqueued and not yet dequeued.
C17_DemandCountsSender ==
  [][\A p \in Procs :
       pc[p] = "demand" /\ pc'[p] = "dequeue"
         => /\ p \in PendingCalls
            /\ demand'[p] >= 1 /\ demand'[p] <= PendingCap
            /\ demand'[p] = Cardinality(PendingCalls)]_vars

\* positions in which the call holds the value received from outgoingCredits
HolderPcs == {"put", "err_put", "hdr_put", "floor_put"}

\* positions in which the call waits to receive from outgoingCredits
TakerPcs == {"take", "hdr_take", "floor_take"}

\* the goroutines that hold the value
Holders == {p \in Procs : pc[p] \in HolderPcs}

\* C18: the value of outgoingCredits is in the channel or held by exactly
\* one goroutine; a goroutine that received it sends one value back in its
\* next step, into the empty channel; the value a read-modify-write holds is
\* the last one written; and no goroutine waits forever to receive it.
C18_MutualExclusion ==
  /\ [](Len(outgoingCredits) + Cardinality(Holders) = 1)
  /\ [](\A p \in Procs : pc[p] \in HolderPcs \ {"hdr_put"} => local[p] = ledger)
  /\ [][\A p \in Procs :
         /\ pc'[p] # pc[p] /\ Len(outgoingCredits') < Len(outgoingCredits)
              => pc'[p] \in HolderPcs
         /\ pc[p] \in HolderPcs /\ pc'[p] # pc[p]
              => /\ outgoingCredits = <<>> /\ Len(outgoingCredits') = 1
                 /\ pc'[p] \notin HolderPcs]_vars
  /\ \A p \in Procs : (pc[p] \in TakerPcs) ~> (pc[p] \notin TakerPcs)

\* C18 witness: one call holds the balance for its decrement while the
\* reply of the other waits to receive it
C18_Witness ==
  \E p, q \in Procs :
    /\ pc[p] = "put" /\ local[p] = 1 /\ ledger = 1
    /\ pc[q] = "floor_take" /\ outgoingCredits = <<>>

====
